---- MODULE Spec2Model ----
(***************************************************************************)
(* epub_to_markdown/converter.py: main's loop over the input books,        *)
(* convert_epub_to_markdown (existence check, read, output directories,    *)
(* image extraction, table-of-contents walk, save), _recursive_add_toc and *)
(* _process_chapter.                                                       *)
(*                                                                         *)
(* Strings are sequences of one-character strings, so that split('#'),     *)
(* strip(), lower(), the substring test, os.path.join, os.path.dirname and *)
(* os.path.normpath are computed character by character.  Paths follow     *)
(* posixpath (the separator is "/").                                       *)
(***************************************************************************)
EXTENDS Integers, Sequences, FiniteSets, TLC

\* ------------------------------------------------------------ bounds
\* Longest list of input books on the command line.
MaxBooks == 2
\* Most toc nodes (links and sections together) of a generated toc forest.
MaxNodes == 3
\* Deepest chain of nested sections of a generated toc.
MaxChain == 6
\* Most elements of a generated chapter body.
MaxElems == 2

\* ------------------------------------------------------------ strings
Whitespace == {" ", "\t", "\n"}

\* str.lower() on one character of the alphabet the model uses.
LowerChar(c) ==
    CASE c = "F" -> "f"
      [] c = "O" -> "o"
      [] c = "I" -> "i"
      [] c = "C" -> "c"
      [] c = "P" -> "p"
      [] OTHER -> c

RECURSIVE lower(_)
lower(s) == IF s = <<>> THEN <<>> ELSE <<LowerChar(Head(s))>> \o lower(Tail(s))

RECURSIVE lstrip(_)
lstrip(s) == IF s # <<>> /\ Head(s) \in Whitespace THEN lstrip(Tail(s)) ELSE s

RECURSIVE rstrip(_)
rstrip(s) ==
    IF s # <<>> /\ s[Len(s)] \in Whitespace THEN rstrip(SubSeq(s, 1, Len(s) - 1)) ELSE s

strip(s) == rstrip(lstrip(s))

\* Python's `a in b` on strings: a is a contiguous run of b.
str_in(a, b) ==
    \E k \in 0..(Len(b) - Len(a)) : SubSeq(b, k + 1, k + Len(a)) = a

\* s.split(sep): the maximal runs between occurrences of the character sep.
RECURSIVE split(_, _)
split(s, sep) ==
    IF s = <<>> THEN << <<>> >>
    ELSE LET rest == split(Tail(s), sep)
         IN  IF Head(s) = sep THEN << <<>> >> \o rest
             ELSE << <<Head(s)>> \o Head(rest) >> \o Tail(rest)

\* sep.join(parts)
RECURSIVE str_join(_, _)
str_join(parts, sep) ==
    IF parts = <<>> THEN <<>>
    ELSE IF Len(parts) = 1 THEN parts[1]
    ELSE parts[1] \o <<sep>> \o str_join(Tail(parts), sep)

\* '#' * level
RECURSIVE Hashes(_)
Hashes(level) == IF level <= 0 THEN <<>> ELSE <<"#">> \o Hashes(level - 1)

\* f"{heading} {title}\n"
HeadingLine(level, t) == Hashes(level) \o <<" ">> \o t \o <<"\n">>

\* ------------------------------------------------------------ posixpath
startswith_slash(p) == p # <<>> /\ Head(p) = "/"

endswith_slash(p) == p # <<>> /\ p[Len(p)] = "/"

RECURSIVE rstrip_slash(_)
rstrip_slash(p) ==
    IF endswith_slash(p) THEN rstrip_slash(SubSeq(p, 1, Len(p) - 1)) ELSE p

\* p.rfind('/') + 1: the length of the part up to and including the last "/".
RECURSIVE rfind_slash(_)
rfind_slash(p) ==
    IF p = <<>> THEN 0
    ELSE IF p[Len(p)] = "/" THEN Len(p)
    ELSE rfind_slash(SubSeq(p, 1, Len(p) - 1))

\* os.path.dirname
dirname(p) ==
    LET head == SubSeq(p, 1, rfind_slash(p))
    IN  IF head # <<>> /\ (\E k \in 1..Len(head) : head[k] # "/")
        THEN rstrip_slash(head)
        ELSE head

\* os.path.join(a, b)
join(a, b) ==
    IF startswith_slash(b) THEN b
    ELSE IF a = <<>> \/ endswith_slash(a) THEN a \o b
    ELSE a \o <<"/">> \o b

\* normpath's loop over the components.
RECURSIVE norm_comps(_, _, _)
norm_comps(comps, new_comps, initial_slashes) ==
    IF comps = <<>> THEN new_comps
    ELSE LET comp == Head(comps)
             DotDot == <<".", ".">>
             next ==
                 IF comp = <<>> \/ comp = <<".">> THEN new_comps
                 ELSE IF comp # DotDot
                         \/ (initial_slashes = 0 /\ new_comps = <<>>)
                         \/ (new_comps # <<>> /\ new_comps[Len(new_comps)] = DotDot)
                      THEN Append(new_comps, comp)
                 ELSE IF new_comps # <<>>
                      THEN SubSeq(new_comps, 1, Len(new_comps) - 1)
                 ELSE new_comps
         IN  norm_comps(Tail(comps), next, initial_slashes)

\* os.path.normpath
normpath(p) ==
    IF p = <<>> THEN <<".">>
    ELSE LET initial_slashes ==
                 IF ~startswith_slash(p) THEN 0
                 ELSE IF Len(p) >= 2 /\ p[2] = "/" /\ ~(Len(p) >= 3 /\ p[3] = "/")
                      THEN 2
                 ELSE 1
             body == str_join(norm_comps(split(p, "/"), <<>>, initial_slashes), "/")
             full == SubSeq(<<"/", "/">>, 1, initial_slashes) \o body
         IN  IF full = <<>> THEN <<".">> ELSE full

\* pathlib.Path(s).name: the last component, "." and empty components dropped.
PathName(s) ==
    LET parts == SelectSeq(split(s, "/"), LAMBDA c : c # <<>> /\ c # <<".">>)
    IN  IF parts = <<>> THEN <<>> ELSE parts[Len(parts)]

\* pathlib's p / name, a path being the sequence of its components.
PathDiv(p, name) == IF name = <<>> \/ name = <<".">> THEN p ELSE Append(p, name)

\* Path.as_posix()
as_posix(p) == str_join(p, "/")

\* ------------------------------------------------------------ the book
\* A content item of the book: item.get_name(), its type, item.get_content()
\* and, for BeautifulSoup(content, 'html.parser'), the elements of the parsed
\* document in document order.
Item(name, type, content, html) ==
    [name |-> name, type |-> type, content |-> content, html |-> html]

\* An element of a parsed chapter: its tag, its src attribute (img) and its
\* text (get_text()); an absent or empty src is <<>>.
Img(src) == [tag |-> "img", src |-> src, text |-> <<>>]

Elem(tag, text) == [tag |-> tag, src |-> <<>>, text |-> text]

HeadingTags == {"h1", "h2", "h3", "h4", "h5", "h6"}

IsHeading(e) == e.tag \in HeadingTags

IsImg(e) == e.tag = "img"

\* epub.Link(href, title)
Link(title, href) == [kind |-> "Link", title |-> title, href |-> href]

\* epub.Section(title)
Section(title) == [kind |-> "Section", title |-> title]

\* A (section, sub_items) tuple of the toc.
Tuple(section, sub_items) ==
    [kind |-> "tuple", section |-> section, sub_items |-> sub_items]

\* A block of markdown_content: a heading line or a chapter rendered by
\* html2text (kept as the document that was rendered).  node is the position
\* in the toc of the entry the block was appended for (<<>>: the book title);
\* it is bookkeeping of the model, not part of the text.
Block(kind, text, html, node) ==
    [kind |-> kind, text |-> text, html |-> html, node |-> node]

\* book.get_items_of_type(ebooklib.ITEM_IMAGE)
ImageItems(book) == SelectSeq(book.items, LAMBDA it : it.type = "image")

\* {item.get_name(): item for item in book.get_items()}: a later item replaces
\* an earlier one of the same name.
HrefMap(book) ==
    LET items == book.items
        names == {items[k].name : k \in 1..Len(items)}
        last(n) == CHOOSE k \in 1..Len(items) :
                       /\ items[k].name = n
                       /\ \A j \in (k + 1)..Len(items) : items[j].name # n
    IN  [n \in names |-> items[last(n)]]

\* book.get_metadata('DC', 'title')[0][0], or epub_path.stem on IndexError.
Title(epub) ==
    IF epub.book.dc_title # <<>> THEN epub.book.dc_title[1] ELSE epub.stem

UnsafeChars == {"\\", "/", "*", "?", ":", "\"", "<", ">", "|"}

\* re.sub(r'[\\/*?:":<>|]', "", title)
SafeTitle(title) == SelectSeq(title, LAMBDA c : c \notin UnsafeChars)

ImagesName == <<"i", "m", "a", "g", "e", "s">>

\* output_dir / safe_title, relative to the output directory.
BookOutputDir(epub) == PathDiv(<<>>, SafeTitle(Title(epub)))

ImagesDir(epub) == PathDiv(BookOutputDir(epub), ImagesName)

\* book_output_dir / f"{safe_title}.md"
OutputFilename(epub) ==
    PathDiv(BookOutputDir(epub), SafeTitle(Title(epub)) \o <<".", "m", "d">>)
\* Mutant: the joined path is looked up without being normalised.
RewrittenSrcNotNormalised(href, original_src, image_map) ==
    IF original_src = <<>> THEN original_src
    ELSE LET absolute_src == join(dirname(href), original_src)
         IN  IF absolute_src \in DOMAIN image_map
             THEN as_posix(image_map[absolute_src])
             ELSE original_src

\* ------------------------------------------------------------ _process_chapter
\* The new src of an img of a chapter whose toc entry has this href.
RewrittenSrc(href, original_src, image_map) ==
    IF original_src = <<>> THEN original_src
    ELSE LET absolute_src == normpath(join(dirname(href), original_src))
         IN  IF absolute_src \in DOMAIN image_map
             THEN as_posix(image_map[absolute_src])
             ELSE original_src

RECURSIVE RewriteImages(_, _, _)
RewriteImages(href, soup, image_map) ==
    IF soup = <<>> THEN <<>>
    ELSE LET e == Head(soup)
             e2 == IF IsImg(e)
                   THEN [e EXCEPT !.src = RewrittenSrc(href, e.src, image_map)]
                   ELSE e
         IN  <<e2>> \o RewriteImages(href, Tail(soup), image_map)

\* soup.find(['h1', ..., 'h6']): the index of the first heading, 0 if none.
FirstHeading(soup) ==
    IF \E k \in 1..Len(soup) : IsHeading(soup[k])
    THEN CHOOSE k \in 1..Len(soup) :
             IsHeading(soup[k]) /\ \A j \in 1..(k - 1) : ~IsHeading(soup[j])
    ELSE 0
\* Mutant: only a heading that contains the toc title counts as its duplicate.
DuplicatesTitleOneWay(chapter_title, heading_text) ==
    str_in(lower(strip(chapter_title)), lower(strip(heading_text)))

\* chapter_title_norm in heading_text_norm or heading_text_norm in chapter_title_norm
DuplicatesTitle(chapter_title, heading_text) ==
    LET chapter_title_norm == lower(strip(chapter_title))
        heading_text_norm == lower(strip(heading_text))
    IN  \/ str_in(chapter_title_norm, heading_text_norm)
        \/ str_in(heading_text_norm, chapter_title_norm)

\* first_heading.decompose()
Decompose(soup, k) == SubSeq(soup, 1, k - 1) \o SubSeq(soup, k + 1, Len(soup))

_process_chapter(chapter_link, soup, image_map) ==
    LET rewritten == RewriteImages(chapter_link.href, soup, image_map)
        first_heading == FirstHeading(rewritten)
    IN  IF first_heading # 0
           /\ DuplicatesTitle(chapter_link.title, rewritten[first_heading].text)
        THEN Decompose(rewritten, first_heading)
        ELSE rewritten

\* ------------------------------------------------------------ _recursive_add_toc
\* item.href.split('#')[0]
HrefClean(href) == split(href, "#")[1]
\* Mutant: the titles are compared as written, case and blanks included.
TitleDiffersAsWritten(title, book_title) == title # book_title

\* title.strip().lower() != book_title.strip().lower()
TitleDiffers(title, book_title) == lower(strip(title)) # lower(strip(book_title))
\* Mutant: the heading level is capped at 6, the deepest Markdown heading.
HeadingClamped(level, title) == HeadingLine(IF level > 6 THEN 6 ELSE level, title)

\* heading = '#' * level; f"{heading} {title}\n"
Heading(level, title) == HeadingLine(level, title)
\* Mutant: the walk starts at the level of the book title.
InitialLevelOfTitle == 2 - 1

\* The level of the first call, on book.toc.
InitialLevel == 2

\* The level of the recursive call on a section's sub_items.
SubLevel(level) == level + 1
\* Mutant: the rendered chapter is appended before its heading.
LinkBlocksContentFirst(item, level, doc_item, image_map, book_title, node) ==
    <<Block("md", <<>>, _process_chapter(item, doc_item.html, image_map), node)>>
    \o (IF TitleDiffers(item.title, book_title)
        THEN <<Block("heading", Heading(level, item.title), <<>>, node)>>
        ELSE <<>>)

\* The blocks a resolved Link appends: its heading unless the title is the
\* book's, then the chapter rendered from the processed document.
LinkBlocks(item, level, doc_item, image_map, book_title, node) ==
    (IF TitleDiffers(item.title, book_title)
     THEN <<Block("heading", Heading(level, item.title), <<>>, node)>>
     ELSE <<>>)
    \o <<Block("md", <<>>, _process_chapter(item, doc_item.html, image_map), node)>>

\* The block a tuple appends for its head before its sub_items are walked.
SectionBlocks(section, level, book_title, node) ==
    IF section.kind = "Section" /\ TitleDiffers(section.title, book_title)
    THEN <<Block("heading", Heading(level, section.title), <<>>, node)>>
    ELSE <<>>

Warning(href) == [level |-> "WARNING", msg |-> "link not found", arg |-> href]
\* Mutant: a link that is not found still gets its heading line.
LinkNotFoundHeading(out, item, level, node) ==
    [out EXCEPT !.log = Append(@, Warning(item.href)),
                !.md = Append(@, Block("heading", HeadingLine(level, item.title), <<>>, node))]

\* The else branch of a Link: only the warning is logged.
LinkNotFound(out, item, level, node) ==
    [out EXCEPT !.log = Append(@, Warning(item.href))]

\* out is [md |-> markdown_content, log |-> the log]; n is the position of the
\* for loop in toc_items and path the position of toc_items' parent in the toc.
RECURSIVE _recursive_add_toc(_, _, _, _, _, _, _, _)
_recursive_add_toc(toc_items, level, out, href_map, image_map, book_title, path, n) ==
    IF n > Len(toc_items) THEN out
    ELSE LET item == toc_items[n]
             node == Append(path, n)
             after ==
                 IF item.kind = "Link"
                 THEN LET href_clean == HrefClean(item.href)
                      IN  IF href_clean \in DOMAIN href_map
                          THEN [out EXCEPT !.md = @ \o LinkBlocks(item, level,
                                       href_map[href_clean], image_map, book_title, node)]
                          ELSE LinkNotFound(out, item, level, node)
                 ELSE IF item.kind = "tuple"
                 THEN _recursive_add_toc(item.sub_items, SubLevel(level),
                          [out EXCEPT !.md = @ \o SectionBlocks(item.section, level,
                                                                book_title, node)],
                          href_map, image_map, book_title, node, 1)
                 ELSE out
         IN  _recursive_add_toc(toc_items, level, after, href_map, image_map,
                                book_title, path, n + 1)

\* ------------------------------------------------------------ the inputs
T_Fo == <<"F", "o">>

T_fO == <<" ", "f", "O", " ">>

T_P == <<"P">>

T_I == <<"I">>

T_C == <<"C">>

Html == <<"html">>

\* The two documents every generated book holds.
Doc_a == Item(<<"a">>, "document", Html, <<Elem("h1", <<"x">>), Elem("p", <<"y">>)>>)

Doc_tb == Item(<<"t", "/", "b">>, "document", Html, <<Elem("p", <<"z">>)>>)

\* Three images; the first two share the base name p.
Image_ip == Item(<<"i", "/", "p">>, "image", <<"b1">>, <<>>)

Image_jp == Item(<<"j", "/", "p">>, "image", <<"b2">>, <<>>)

Image_q == Item(<<"q">>, "image", <<"b3">>, <<>>)

Book(dc_title, items, toc) == [dc_title |-> dc_title, items |-> items, toc |-> toc]

\* An input path: its stem, whether the file exists, whether epub.read_epub
\* parses it, and the book it then yields.
Epub(stem, exists, parses, book) ==
    [stem |-> stem, exists |-> exists, parses |-> parses, book |-> book]

NoBook == Book(<<>>, <<>>, <<>>)

\* Input lists of up to MaxBooks books: a missing path, a file that is no
\* EPUB, a book without images and without a title, a book with three images.
Catalog ==
    { Epub(<<"m">>, FALSE, FALSE, NoBook),
      Epub(<<"u">>, TRUE, FALSE, NoBook),
      Epub(T_P, TRUE, TRUE, Book(<<>>, <<Doc_a>>, <<Link(T_I, <<"a">>)>>)),
      Epub(<<"g">>, TRUE, TRUE,
           Book(<<T_Fo>>, <<Image_ip, Doc_a, Image_jp, Image_q>>,
                <<Link(T_I, <<"a", "#", "s">>), Link(T_C, <<"z">>)>>)) }

InputLists == UNION {[1..n -> Catalog] : n \in 1..MaxBooks}

\* Toc forests of up to MaxNodes nodes.  Leaves: a chapter, a chapter titled
\* like the book and linked with a fragment, a chapter in a subdirectory, a
\* link to a document the book does not hold.  Tuples are headed by a Section,
\* by a Section titled like the book, or by a Link.
Leaves ==
    { Link(T_I, <<"a">>),
      Link(T_fO, <<"a", "#", "s">>),
      Link(T_C, <<"t", "/", "b">>),
      Link(T_C, <<"z", "#", "a">>) }

Heads == {Section(T_P), Section(T_fO), Link(T_I, <<"a">>)}

RECURSIVE TreesOf(_), ForestsOf(_)
TreesOf(m) ==
    (IF m = 1 THEN Leaves ELSE {})
    \cup {Tuple(h, f) : h \in Heads, f \in ForestsOf(m - 1)}

ForestsOf(n) ==
    IF n = 0 THEN {<<>>}
    ELSE UNION {{<<t>> \o f : t \in TreesOf(m), f \in ForestsOf(n - m)} : m \in 1..n}

Forests == UNION {ForestsOf(n) : n \in 0..MaxNodes}

\* One book per forest, titled "Fo" by its metadata or "P" by its file name.
TocInputs ==
    { <<Epub(T_P, TRUE, TRUE, Book(dc, <<Doc_a, Doc_tb>>, toc))>> :
          dc \in {<<T_Fo>>, <<>>}, toc \in Forests }

\* A chain of d nested sections around one chapter.
RECURSIVE Chain(_)
Chain(d) == IF d = 0 THEN <<Link(T_C, <<"a">>)>> ELSE <<Tuple(Section(T_P), Chain(d - 1))>>

ChainInputs ==
    { <<Epub(T_P, TRUE, TRUE, Book(<<T_Fo>>, <<Doc_a>>, Chain(d)))>> : d \in 1..MaxChain }

\* Chapter bodies of up to MaxElems elements.
Sources ==
    { <<"q">>,
      <<".", ".", "/", "/", "j", "/", ".", "/", "p">>,
      <<"/", "q">>,
      <<>> }

HeadingTexts == {<<"i">>, <<" ", "C", " ", "i", " ", "p">>, <<"o">>}

Elements ==
    {Img(src) : src \in Sources}
    \cup {Elem("h1", text) : text \in HeadingTexts}
    \cup {Elem("h3", <<"o">>)}
    \cup {Elem("p", <<"y">>)}

Soups == UNION {[1..n -> Elements] : n \in 0..MaxElems}

ChapterTitles == {<<"C", " ", "i">>, <<"I", " ">>, <<"p", "p">>}

\* The chapter lies in the directory t, or at the top of the archive and is
\* linked with a fragment, which may hold a "/" of its own.
ChapterHrefs == {<<"t", "/", "c">>, <<"c", "#", "s">>, <<"c", "#", "s", "/", "u">>}

ChapterInputs ==
    { <<Epub(T_P, TRUE, TRUE,
             Book(<<T_Fo>>,
                  <<Image_ip, Image_jp, Image_q,
                    Item(HrefClean(href), "document", Html, soup)>>,
                  <<Link(title, href)>>))>> :
          soup \in Soups, title \in ChapterTitles, href \in ChapterHrefs }

Inputs == InputLists \cup TocInputs \cup ChainInputs \cup ChapterInputs

\* ------------------------------------------------------------ the run
VARIABLES
    epub_paths,        \* main: the input list
    pc,                \* "main", "images", "save", "done" or "crashed"
    idx,               \* main: the position of the for loop in epub_paths
    img_idx,           \* convert_epub_to_markdown: the position of the image loop
    image_map,         \* convert_epub_to_markdown: image_map
    markdown_content,  \* convert_epub_to_markdown: markdown_content
    files,             \* the files under the output directory, by path
    dirs,              \* the directories under the output directory
    log,               \* the ERROR and WARNING records logged so far
    calls              \* the positions convert_epub_to_markdown was called for

vars == <<epub_paths, pc, idx, img_idx, image_map, markdown_content, files, dirs,
          log, calls>>

\* The state at the head of main's loop: the output directory exists.
Init ==
    /\ epub_paths \in Inputs
    /\ pc = "main"
    /\ idx = 1
    /\ img_idx = 0
    /\ image_map = <<>>
    /\ markdown_content = <<>>
    /\ files = <<>>
    /\ dirs = {<<>>}
    /\ log = <<>>
    /\ calls = <<>>

Error(msg, arg) == [level |-> "ERROR", msg |-> msg, arg |-> arg]
\* Mutant: a file that already exists is not written again.
WriteFileOnce(fs, path, content) == fs @@ (path :> content)

\* open(path, 'wb') and f.write(content) having succeeded.
WriteFile(fs, path, content) == (path :> content) @@ fs

\* image_map[item.get_name()] = Path('images') / image_filename
MapImage(map, name) == (name :> PathDiv(<<ImagesName>>, PathName(name))) @@ map

\* An exception leaves convert_epub_to_markdown and main's loop: the process
\* ends with the locals as they were.
Raise ==
    /\ pc' = "crashed"
    /\ UNCHANGED <<epub_paths, idx, img_idx, image_map, markdown_content, log, calls>>

\* convert_epub_to_markdown returns to main's loop.
Return ==
    /\ pc' = "main"
    /\ idx' = idx + 1
    /\ img_idx' = 0
    /\ image_map' = <<>>
    /\ markdown_content' = <<>>

\* if not epub_path.exists(): log the error and return.
ConvertMissing ==
    /\ pc = "main" /\ idx <= Len(epub_paths)
    /\ ~epub_paths[idx].exists
    /\ calls' = Append(calls, idx)
    /\ log' = Append(log, Error("file does not exist", idx))
    /\ Return
    /\ UNCHANGED <<epub_paths, files, dirs>>
\* Mutant: the exception of epub.read_epub is not caught.
ConvertUnreadableRaises ==
    /\ pc = "main" /\ idx <= Len(epub_paths)
    /\ epub_paths[idx].exists /\ ~epub_paths[idx].parses
    /\ calls' = Append(calls, idx)
    /\ pc' = "crashed"
    /\ UNCHANGED <<epub_paths, idx, img_idx, image_map, markdown_content, files, dirs, log>>

\* epub.read_epub raises: log the error and return.
ConvertUnreadable ==
    /\ pc = "main" /\ idx <= Len(epub_paths)
    /\ epub_paths[idx].exists /\ ~epub_paths[idx].parses
    /\ calls' = Append(calls, idx)
    /\ log' = Append(log, Error("cannot read EPUB", idx))
    /\ Return
    /\ UNCHANGED <<epub_paths, files, dirs>>

\* The book is read; images_dir.mkdir(parents=True, exist_ok=True) creates the
\* book's directories or raises OSError.
ConvertMkdir ==
    /\ pc = "main" /\ idx <= Len(epub_paths)
    /\ epub_paths[idx].exists /\ epub_paths[idx].parses
    /\ calls' = Append(calls, idx)
    /\ \E ok \in BOOLEAN :
           IF ok
           THEN /\ dirs' = dirs \cup {BookOutputDir(epub_paths[idx]), ImagesDir(epub_paths[idx])}
                /\ pc' = "images"
                /\ img_idx' = 1
                /\ image_map' = <<>>
                /\ UNCHANGED <<epub_paths, idx, markdown_content, files, log>>
           ELSE /\ pc' = "crashed"
                /\ UNCHANGED <<epub_paths, idx, img_idx, image_map, markdown_content,
                               files, dirs, log>>

\* One round of the image loop: the file is written and the image mapped, or
\* open raises (no file), or write raises (the file is left truncated).
ExtractImage ==
    /\ pc = "images" /\ img_idx <= Len(ImageItems(epub_paths[idx].book))
    /\ LET item == ImageItems(epub_paths[idx].book)[img_idx]
           image_filename == PathName(item.name)
           image_output_path == PathDiv(ImagesDir(epub_paths[idx]), image_filename)
       IN  \E outcome \in {"written", "open raises", "write raises"} :
               CASE outcome = "written" ->
                        /\ files' = WriteFile(files, image_output_path, item.content)
                        /\ image_map' = MapImage(image_map, item.name)
                        /\ img_idx' = img_idx + 1
                        /\ UNCHANGED <<epub_paths, pc, idx, markdown_content, dirs, log, calls>>
                 [] outcome = "open raises" ->
                        /\ Raise
                        /\ UNCHANGED <<files, dirs>>
                 [] outcome = "write raises" ->
                        /\ files' = WriteFile(files, image_output_path, <<>>)
                        /\ Raise
                        /\ UNCHANGED dirs

\* Steps 3 and 4: markdown_content starts with the title line and
\* _recursive_add_toc walks book.toc from InitialLevel.
Assemble ==
    /\ pc = "images" /\ img_idx > Len(ImageItems(epub_paths[idx].book))
    /\ LET epub == epub_paths[idx]
           title == Title(epub)
           out == _recursive_add_toc(epub.book.toc, InitialLevel,
                      [md |-> <<Block("heading", Heading(1, title), <<>>, <<>>)>>,
                       log |-> log],
                      HrefMap(epub.book), image_map, title, <<>>, 1)
       IN  /\ markdown_content' = out.md
           /\ log' = out.log
    /\ pc' = "save"
    /\ UNCHANGED <<epub_paths, idx, img_idx, image_map, files, dirs, calls>>

\* Step 5: the Markdown file is written and the call returns, or open raises,
\* or write raises and leaves the file truncated.  The file is kept as the
\* sequence of blocks that "\n".join puts into it.
Save ==
    /\ pc = "save"
    /\ \E outcome \in {"written", "open raises", "write raises"} :
           CASE outcome = "written" ->
                    /\ files' = WriteFile(files, OutputFilename(epub_paths[idx]), markdown_content)
                    /\ Return
                    /\ UNCHANGED <<epub_paths, dirs, log, calls>>
             [] outcome = "open raises" ->
                    /\ Raise
                    /\ UNCHANGED <<files, dirs>>
             [] outcome = "write raises" ->
                    /\ files' = WriteFile(files, OutputFilename(epub_paths[idx]), <<>>)
                    /\ Raise
                    /\ UNCHANGED dirs

\* The for loop of main is exhausted.
MainDone ==
    /\ pc = "main" /\ idx > Len(epub_paths)
    /\ pc' = "done"
    /\ UNCHANGED <<epub_paths, idx, img_idx, image_map, markdown_content, files, dirs,
                   log, calls>>

Next ==
    \/ ConvertMissing
    \/ ConvertUnreadable
    \/ ConvertMkdir
    \/ ExtractImage
    \/ Assemble
    \/ Save
    \/ MainDone

Spec == Init /\ [][Next]_vars

\* ------------------------------------------------------------ the claims
\* The book being converted and what convert_epub_to_markdown derives from it.
CurEpub == epub_paths[idx]

CurToc == CurEpub.book.toc

CurHrefMap == HrefMap(CurEpub.book)

CurTitle == Title(CurEpub)

\* The positions of the nodes of a toc, each the sequence of indices from the
\* root, and the node at a position.
RECURSIVE NodePaths(_, _)
NodePaths(toc_items, path) ==
    UNION { {Append(path, k)}
            \cup (IF toc_items[k].kind = "tuple"
                  THEN NodePaths(toc_items[k].sub_items, Append(path, k))
                  ELSE {}) : k \in 1..Len(toc_items) }

RECURSIVE NodeAt(_, _)
NodeAt(toc_items, p) ==
    IF Len(p) = 1 THEN toc_items[p[1]]
    ELSE NodeAt(toc_items[p[1]].sub_items, Tail(p))

\* p comes before q in pre-order: p is a proper prefix of q, or p branches off
\* to the left of q.
RECURSIVE PathBefore(_, _)
PathBefore(p, q) ==
    IF q = <<>> THEN FALSE
    ELSE IF p = <<>> THEN TRUE
    ELSE IF Head(p) # Head(q) THEN Head(p) < Head(q)
    ELSE PathBefore(Tail(p), Tail(q))

IsLeaf(n) == n.kind = "Link"

Resolves(n, href_map) == HrefClean(n.href) \in DOMAIN href_map

IsMissingLeaf(n, href_map) == IsLeaf(n) /\ ~Resolves(n, href_map)

SameTitle(t, book_title) == lower(strip(t)) = lower(strip(book_title))

\* The text of a block without the position it was appended for.
RECURSIVE Texts(_)
Texts(md) ==
    IF md = <<>> THEN <<>>
    ELSE <<[kind |-> Head(md).kind, text |-> Head(md).text, html |-> Head(md).html]>>
         \o Texts(Tail(md))

\* The heading lines among the blocks, in order.
RECURSIVE HeadingLines(_)
HeadingLines(md) ==
    IF md = <<>> THEN <<>>
    ELSE (IF Head(md).kind = "heading" THEN <<Head(md).text>> ELSE <<>>)
         \o HeadingLines(Tail(md))

\* The number of "#" a line starts with.
RECURSIVE LeadingHashes(_)
LeadingHashes(line) ==
    IF line # <<>> /\ Head(line) = "#" THEN 1 + LeadingHashes(Tail(line)) ELSE 0

\* The toc with every leaf that does not resolve removed.
RECURSIVE WithoutMissing(_, _)
WithoutMissing(toc_items, href_map) ==
    IF toc_items = <<>> THEN <<>>
    ELSE LET item == Head(toc_items)
             kept == IF IsMissingLeaf(item, href_map) THEN <<>>
                     ELSE IF item.kind = "tuple"
                     THEN <<Tuple(item.section, WithoutMissing(item.sub_items, href_map))>>
                     ELSE <<item>>
         IN  kept \o WithoutMissing(Tail(toc_items), href_map)

\* The hrefs of the leaves that do not resolve, in toc order.
RECURSIVE MissingHrefs(_, _)
MissingHrefs(toc_items, href_map) ==
    IF toc_items = <<>> THEN <<>>
    ELSE LET item == Head(toc_items)
             here == IF IsMissingLeaf(item, href_map) THEN <<item.href>>
                     ELSE IF item.kind = "tuple"
                     THEN MissingHrefs(item.sub_items, href_map)
                     ELSE <<>>
         IN  here \o MissingHrefs(Tail(toc_items), href_map)

RECURSIVE Warnings(_)
Warnings(hrefs) ==
    IF hrefs = <<>> THEN <<>> ELSE <<Warning(Head(hrefs))>> \o Warnings(Tail(hrefs))

TitleBlock == Block("heading", HeadingLine(1, CurTitle), <<>>, <<>>)

\* C1: the walk of a toc logs one warning per leaf whose href (fragment
\* stripped) is no key of href_map, appends no block for such a leaf, runs to
\* its end, and appends for the other entries exactly the blocks it appends for
\* the toc without those leaves.
C1_MissingLinkSkipped ==
    [][(pc = "images" /\ pc' = "save") =>
         LET without == _recursive_add_toc(WithoutMissing(CurToc, CurHrefMap), 2,
                            [md |-> <<TitleBlock>>, log |-> <<>>],
                            CurHrefMap, image_map, CurTitle, <<>>, 1)
         IN  /\ Texts(markdown_content') = Texts(without.md)
             /\ \A k \in 2..Len(markdown_content') :
                    ~IsMissingLeaf(NodeAt(CurToc, markdown_content'[k].node), CurHrefMap)
             /\ log' = log \o Warnings(MissingHrefs(CurToc, CurHrefMap))]_vars

\* C1's case: the walk is over, a leaf did not resolve and blocks were
\* appended for an entry after it.
C1_Witness ==
    /\ pc = "save"
    /\ \E p \in NodePaths(CurToc, <<>>) :
           /\ IsMissingLeaf(NodeAt(CurToc, p), CurHrefMap)
           /\ \E k \in 2..Len(markdown_content) : PathBefore(p, markdown_content[k].node)
           /\ \E k \in 2..Len(markdown_content) : PathBefore(markdown_content[k].node, p)
    /\ \E k \in 1..Len(log) : log[k].level = "WARNING"

\* C2: every heading line the walk emits for a toc node has as many "#" as the
\* node's depth + 1, the roots being at level 2: a node nested k sections deep
\* gets 2 + k of them, also beyond 6.
C2_HeadingLevelIsDepth ==
    pc = "save" =>
        \A k \in 2..Len(markdown_content) :
            LET b == markdown_content[k]
            IN  b.kind = "heading" =>
                    /\ LeadingHashes(b.text) = Len(b.node) + 1
                    /\ b.text[Len(b.node) + 2] = " "

\* C2's case: a heading of more than six "#" was emitted.
C2_Witness ==
    /\ pc = "save"
    /\ \E k \in 2..Len(markdown_content) :
           /\ markdown_content[k].kind = "heading"
           /\ LeadingHashes(markdown_content[k].text) > 6
           /\ Len(markdown_content[k].node) > 5

IsFlat(toc) == \A k \in 1..Len(toc) : IsLeaf(toc[k])

AllResolve(toc, href_map) == \A k \in 1..Len(toc) : Resolves(toc[k], href_map)

\* The level-2 heading lines of the chapters of a flat toc, in toc order:
\* of every chapter, or of those not titled like the book.
RECURSIVE ChapterHeadings(_, _, _)
ChapterHeadings(toc, book_title, all) ==
    IF toc = <<>> THEN <<>>
    ELSE (IF all \/ ~SameTitle(Head(toc).title, book_title)
          THEN <<HeadingLine(2, Head(toc).title)>>
          ELSE <<>>)
         \o ChapterHeadings(Tail(toc), book_title, all)

\* C3 as stated: for a flat toc whose chapters all resolve, the heading lines
\* of the assembled document are the level-1 title and one level-2 heading per
\* chapter, in toc order.
C3_OneHeadingPerChapter ==
    (pc = "save" /\ IsFlat(CurToc) /\ AllResolve(CurToc, CurHrefMap)) =>
        HeadingLines(markdown_content)
            = <<HeadingLine(1, CurTitle)>> \o ChapterHeadings(CurToc, CurTitle, TRUE)

\* C3 as amended: for a flat toc whose chapters all resolve, the heading lines
\* the assembly emits are the level-1 title and one level-2 heading per chapter
\* whose trimmed, lower-cased title differs from the book title's, in toc order;
\* a chapter titled like the book gets no heading.
C3_FlatTocHeadings ==
    (pc = "save" /\ IsFlat(CurToc) /\ AllResolve(CurToc, CurHrefMap)) =>
        HeadingLines(markdown_content)
            = <<HeadingLine(1, CurTitle)>> \o ChapterHeadings(CurToc, CurTitle, FALSE)

\* C3's case: a flat toc of three resolved chapters, one of them titled like
\* the book, has been assembled.
C3_Witness ==
    /\ pc = "save" /\ IsFlat(CurToc) /\ AllResolve(CurToc, CurHrefMap)
    /\ Len(CurToc) = 3
    /\ SameTitle(CurToc[2].title, CurTitle)
    /\ ~SameTitle(CurToc[1].title, CurTitle) /\ ~SameTitle(CurToc[3].title, CurTitle)
    /\ Len(HeadingLines(markdown_content)) = 3

\* C4: the blocks are the pre-order walk of the toc after the title block: the
\* title line comes first; of two blocks the earlier one belongs to the same
\* node or to a node earlier in pre-order (an ancestor, or a node in the
\* subtree of an earlier sibling); the two blocks of one node are its heading
\* immediately followed by its chapter, and the heading of a leaf is always
\* followed by that leaf's chapter.
C4_PreOrder ==
    pc = "save" =>
        /\ markdown_content[1] = TitleBlock
        /\ \A i \in 2..Len(markdown_content) :
               (markdown_content[i].kind = "heading"
                 /\ IsLeaf(NodeAt(CurToc, markdown_content[i].node))) =>
                   /\ i < Len(markdown_content)
                   /\ markdown_content[i + 1].kind = "md"
                   /\ markdown_content[i + 1].node = markdown_content[i].node
        /\ \A k \in 2..Len(markdown_content) :
               markdown_content[k].node \in NodePaths(CurToc, <<>>)
        /\ \A i, j \in 2..Len(markdown_content) :
               i < j =>
                   LET a == markdown_content[i]
                       b == markdown_content[j]
                   IN  \/ PathBefore(a.node, b.node)
                       \/ /\ a.node = b.node
                          /\ j = i + 1
                          /\ a.kind = "heading" /\ b.kind = "md"

\* C4's case: the book "Fo" with toc [I, P [C]] has been assembled to the
\* headings "# Fo", "## I", "## P", "### C".
C4_Witness ==
    /\ pc = "save"
    /\ Len(CurToc) = 2 /\ IsLeaf(CurToc[1])
    /\ CurToc[2].kind = "tuple" /\ Len(CurToc[2].sub_items) = 1
    /\ HeadingLines(markdown_content)
           = << <<"#", " ", "F", "o", "\n">>,
                <<"#", "#", " ", "I", "\n">>,
                <<"#", "#", " ", "P", "\n">>,
                <<"#", "#", "#", " ", "C", "\n">> >>
    /\ Len(markdown_content) = 6

\* The blocks of one kind appended for the node at p.
BlocksOf(md, p, kind) == SelectSeq(md, LAMBDA b : b.node = p /\ b.kind = kind)

\* C6: a node titled like the book (trimmed, lower-cased) gets no heading line
\* but keeps its payload: a resolved leaf its rendered chapter, a section the
\* walk of its children one level down.  A resolved leaf or a section titled
\* otherwise gets exactly one heading line, "#" * level, a blank, its title.
C6_TitleLikeBook ==
    pc = "save" =>
        \A p \in NodePaths(CurToc, <<>>) :
            LET n == NodeAt(CurToc, p)
                level == Len(p) + 1
                headings == BlocksOf(markdown_content, p, "heading")
                chapters == BlocksOf(markdown_content, p, "md")
            IN  /\ (IsLeaf(n) /\ Resolves(n, CurHrefMap)) =>
                        /\ Len(chapters) = 1
                        /\ IF SameTitle(n.title, CurTitle)
                           THEN headings = <<>>
                           ELSE /\ Len(headings) = 1
                                /\ headings[1].text = HeadingLine(level, n.title)
                /\ (n.kind = "tuple" /\ n.section.kind = "Section") =>
                        /\ chapters = <<>>
                        /\ IF SameTitle(n.section.title, CurTitle)
                           THEN headings = <<>>
                           ELSE /\ Len(headings) = 1
                                /\ headings[1].text = HeadingLine(level, n.section.title)
                        /\ \A k \in 1..Len(n.sub_items) :
                               LET c == n.sub_items[k]
                                   below == BlocksOf(markdown_content, Append(p, k), "heading")
                               IN  (IsLeaf(c) /\ Resolves(c, CurHrefMap)
                                     /\ ~SameTitle(c.title, CurTitle)) =>
                                        /\ Len(below) = 1
                                        /\ LeadingHashes(below[1].text) = level + 1

\* C6's case: a section titled like the book holds a leaf titled like the book
\* and a leaf titled otherwise; the section and the first leaf got no heading,
\* the first leaf its chapter, the second leaf a level-3 heading.
C6_Witness ==
    /\ pc = "save"
    /\ Len(CurToc) = 1 /\ CurToc[1].kind = "tuple"
    /\ CurToc[1].section.kind = "Section"
    /\ SameTitle(CurToc[1].section.title, CurTitle)
    /\ CurToc[1].section.title # CurTitle
    /\ Len(CurToc[1].sub_items) = 2
    /\ IsLeaf(CurToc[1].sub_items[1]) /\ SameTitle(CurToc[1].sub_items[1].title, CurTitle)
    /\ IsLeaf(CurToc[1].sub_items[2]) /\ ~SameTitle(CurToc[1].sub_items[2].title, CurTitle)
    /\ Len(markdown_content) = 4
    /\ markdown_content[2].kind = "md" /\ markdown_content[2].node = <<1, 1>>
    /\ markdown_content[3].kind = "heading" /\ markdown_content[3].node = <<1, 2>>
    /\ LeadingHashes(markdown_content[3].text) = 3

\* The chapter blocks among the blocks, each with the toc entry it was rendered
\* for and the document of that entry as the book holds it.
ChapterBlocks(md) == {k \in 2..Len(md) : md[k].kind = "md"}

EntryOf(b) == NodeAt(CurToc, b.node)

SourceOf(b) == CurHrefMap[HrefClean(EntryOf(b).href)].html

Headings(soup) == SelectSeq(soup, IsHeading)

Images(soup) == SelectSeq(soup, IsImg)

\* Trimmed and lower-cased, one of the two strings is a substring of the other.
OneContainsOther(a, b) ==
    LET x == lower(strip(a))
        y == lower(strip(b))
    IN  \/ \E i \in 0..(Len(y) - Len(x)) : \A k \in 1..Len(x) : y[i + k] = x[k]
        \/ \E i \in 0..(Len(x) - Len(y)) : \A k \in 1..Len(y) : x[i + k] = y[k]

\* C7: the first heading of a chapter is removed if and only if, trimmed and
\* lower-cased, the toc title is a substring of the heading text or the heading
\* text one of the toc title; no other element is removed and the other
\* headings stay as they were, in order.
C7_FirstHeadingDeduplicated ==
    pc = "save" =>
        \A k \in ChapterBlocks(markdown_content) :
            LET b == markdown_content[k]
                before == Headings(SourceOf(b))
                after == Headings(b.html)
                removed == before # <<>>
                           /\ OneContainsOther(EntryOf(b).title, before[1].text)
            IN  /\ after = IF removed THEN Tail(before) ELSE before
                /\ Len(b.html) = Len(SourceOf(b)) - (IF removed THEN 1 ELSE 0)

\* C7's case: a chapter of two headings, the first one contained in the toc
\* title without containing it, was rendered with only the second one.
C7_Witness ==
    /\ pc = "save"
    /\ \E k \in ChapterBlocks(markdown_content) :
           LET b == markdown_content[k]
               before == Headings(SourceOf(b))
           IN  /\ Len(before) = 2
               /\ before[1].text # before[2].text
               /\ ~str_in(lower(strip(EntryOf(b).title)), lower(strip(before[1].text)))
               /\ Headings(b.html) = <<before[2]>>

\* What C8 says of an image reference.
ExpectedSrc(href, src, map) ==
    LET resolved == normpath(join(dirname(href), src))
    IN  IF src # <<>> /\ resolved \in DOMAIN map
        THEN ImagesName \o <<"/">> \o PathName(resolved)
        ELSE src

Skipped(epub) == ~epub.exists \/ ~epub.parses

\* C9: a call for a path that does not exist or does not parse logs one error
\* and returns: no directory and no file is created, and main goes on to the
\* next path; the calls are made in input order, and a run that ends has made
\* one for every path.
C9_UnreadableBookSkipped ==
    [][/\ (pc = "main" /\ idx <= Len(epub_paths) /\ Skipped(epub_paths[idx])) =>
            /\ files' = files /\ dirs' = dirs
            /\ Len(log') = Len(log) + 1
            /\ SubSeq(log', 1, Len(log)) = log
            /\ log'[Len(log')].level = "ERROR"
            /\ calls' = Append(calls, idx)
            /\ pc' = "main" /\ idx' = idx + 1
       /\ \A k \in 1..Len(calls') : calls'[k] = k
       /\ pc' = "done" => Len(calls') = Len(epub_paths)]_vars

\* C9's case: the first path was skipped with an error and the second book is
\* being converted.
C9_Witness ==
    /\ pc = "save" /\ idx = 2
    /\ Skipped(epub_paths[1])
    /\ calls = <<1, 2>>
    /\ Len(log) >= 1 /\ log[1].level = "ERROR"
    /\ files = <<>>

\* The last image item of the book with the base name of the item called name.
LastWithBaseName(images, name) ==
    images[CHOOSE k \in 1..Len(images) :
               /\ PathName(images[k].name) = PathName(name)
               /\ \A j \in (k + 1)..Len(images) :
                      PathName(images[j].name) # PathName(name)]

\* C10: after the image loop the image map has one entry per image item, its
\* key the item's path in the archive and its value "images/<basename>"; the
\* file of that name under the book's images directory holds the bytes of the
\* last item of that base name.
C10_ImageMapAndFiles ==
    ((pc = "images" /\ img_idx > Len(ImageItems(CurEpub.book))) \/ pc = "save") =>
        LET images == ImageItems(CurEpub.book)
            names == {images[k].name : k \in 1..Len(images)}
        IN  /\ DOMAIN image_map = names
            /\ Cardinality(DOMAIN image_map) = Len(images)
            /\ \A n \in names :
                   /\ as_posix(image_map[n]) = ImagesName \o <<"/">> \o PathName(n)
                   /\ "/" \notin {PathName(n)[k] : k \in 1..Len(PathName(n))}
                   /\ LET path == Append(ImagesDir(CurEpub), PathName(n))
                      IN  /\ path \in DOMAIN files
                          /\ files[path] = LastWithBaseName(images, n).content

\* C10's case: i/p and j/p are both mapped to images/p and the file holds the
\* bytes of j/p, extracted after i/p.
C10_Witness ==
    /\ pc = "save"
    /\ <<"i", "/", "p">> \in DOMAIN image_map /\ <<"j", "/", "p">> \in DOMAIN image_map
    /\ image_map[<<"i", "/", "p">>] = image_map[<<"j", "/", "p">>]
    /\ files[Append(ImagesDir(CurEpub), <<"p">>)] = <<"b2">>

\* C5 as stated: no exception leaves convert_epub_to_markdown, so no run ends
\* by one, and a run that ends has called it for every input path.
C5_FailureStaysInBook ==
    /\ pc # "crashed"
    /\ pc = "done" => Len(calls) = Len(epub_paths)

====
